---- MODULE Spec2Model ----
(***************************************************************************)
(* State machine of DataTableComponent (src/src/Component/                 *)
(* DataTableComponent.tsx): the lazy page loader (fetchData, the           *)
(* [first, rows] effect, onPageChange) and the selection controller        *)
(* (onRowSelect, handleInputChange, handleRowSelection).                   *)
(*                                                                         *)
(* Records are identified by their id; the data source holds the records   *)
(* 1..srcTotal in that order.  Every `await` of the source is a point      *)
(* where other handlers may run, so every pending fetch is an element of   *)
(* `loads` (fetchData calls) or `sels` (handleRowSelection invocations)    *)
(* and its continuation is a separate action.  The production build is     *)
(* modelled: the mount effect runs once.                                   *)
(***************************************************************************)
EXTENDS Integers, Sequences, FiniteSets, TLC

\* ---------------------------------------------------------------- bounds
MaxTotal == 5        \* largest number of records the data source holds
MaxN == 5            \* largest number typed into the row-count input
MaxFirst == 2        \* largest offset a page-change event carries
MaxEvents == 4       \* user events and source changes per behaviour
MaxPageEvents == 2   \* page-change events per behaviour
MaxToggles == 2      \* row toggles per behaviour
MaxInputs == 1       \* changes of the row-count input per behaviour
MaxSelects == 2      \* handleRowSelection invocations per behaviour
MaxSrcChanges == 1   \* changes of the data source's size per behaviour
MaxFailures == 1     \* fetches that fail per behaviour
MaxInFlight == 3     \* fetchData calls pending at once

\* The sizes the data source may have.
SourceSizes == {MaxTotal - 2, MaxTotal}

\* Page sizes a page-change event may carry.
PageSizes == {2, 3}

\* useState(12) of `rows`.
DefaultRows == 12

VARIABLES
    artworks,          \* useState<Artwork[]>: ids of the displayed records
    totalRecords,      \* useState(0)
    loading,           \* useState(true)
    first,             \* useState(0)
    rows,              \* useState(12)
    selectedArtworks,  \* useState<Artwork[]>: ids of the selected records
    rowCount,          \* useState<number>(0)
    loads,             \* fetchData calls awaiting their response, in issue order
    sels,              \* handleRowSelection invocations awaiting a page fetch
    srcTotal,          \* number of records the data source holds now
    latestResp,        \* history: the answer to the most recently issued load
    lastTotal,         \* history: the total in the last successful response
    ev,                \* history: what the last step did, and from what
    budget             \* history: events used so far (bounds the behaviours)

vars == <<artworks, totalRecords, loading, first, rows, selectedArtworks,
          rowCount, loads, sels, srcTotal, latestResp, lastTotal, ev,
          budget>>

\* ------------------------------------------------------------ pure helpers
Min(a, b) == IF a <= b THEN a ELSE b
Max(a, b) == IF a >= b THEN a ELSE b

\* The sequence a, a+1, ..., b (empty when b < a).
Range(a, b) == [i \in 1..Max(b - a + 1, 0) |-> a + i - 1]

\* The set of elements of a sequence.
Elems(s) == {s[i] : i \in 1..Len(s)}

\* No truncation of the last page.
SliceWhole(s, k) == s

\* Array.prototype.slice(0, k): a negative k counts from the end.
Slice(s, k) ==
    IF k >= 0 THEN SubSeq(s, 1, Min(k, Len(s)))
    ELSE SubSeq(s, 1, Max(Len(s) + k, 0))

\* Math.floor(n / d) + 1 in the place of Math.ceil.
FloorPlusOne(n, d) == n \div d + 1

\* Math.floor in the place of Math.ceil.
CeilAsFloor(n, d) == n \div d

\* Math.ceil(n / d) for n >= 0, d > 0.
Ceil(n, d) == (n + d - 1) \div d

\* `artworks` after setArtworks(undefined): the body had no `data` member.
Undefined == <<-1>>

\* A page number as the JavaScript number it is: q + r/d.  `first / rows + 1`
\* is a floating-point division, an integer only when rows divides first.
IntPage(p) == [q |-> p, r |-> 0, d |-> 1]

EffectPage(f, rws) ==
    IF f % rws = 0 THEN IntPage(f \div rws + 1)
    ELSE [q |-> f \div rws + 1, r |-> f % rws, d |-> rws]

\* The data source: page `page` of size `limit` of the records 1..total.
PageData(page, limit, total) ==
    Range((page - 1) * limit + 1, Min(page * limit, total))

\* The ways a fetch can end: a JSON body with data and pagination; a rejected
\* fetch() or json(); a JSON body without data and pagination (an error body).
Outcomes == {"ok", "reject", "errbody"}

\* The bound of the behaviours: a user event or source change of kind k is
\* allowed while fewer than `max` of its kind and fewer than MaxEvents in all
\* have happened; a fetch may fail while fewer than MaxFailures have.
Allowed(k, max) == budget[k] < max /\ budget.events < MaxEvents
Spend(k) == [budget EXCEPT ![k] = @ + 1, !.events = @ + 1]
MayEnd(outcome) == outcome = "ok" \/ budget.fails < MaxFailures
SpendOutcome(outcome) ==
    IF outcome = "ok" THEN budget ELSE [budget EXCEPT !.fails = @ + 1]

\* lastTotal before any successful response, and after one reporting `total`.
Total(total) == [seen |-> TRUE, total |-> total]
NoTotal == [seen |-> FALSE]

\* ------------------------------------------------------------------ Init
\* The state after the first render and its effect: fetchData(0 / 12 + 1, 12)
\* has set loading and its request is in flight.
MountLoad == [page |-> EffectPage(0, DefaultRows), pageSize |-> DefaultRows,
              offset |-> 0]

Init ==
    /\ artworks = <<>>
    /\ totalRecords = 0
    /\ loading = TRUE
    /\ first = 0
    /\ rows = DefaultRows
    /\ selectedArtworks = <<>>
    /\ rowCount = 0
    /\ loads = <<MountLoad>>
    /\ sels = <<>>
    /\ srcTotal \in SourceSizes
    /\ latestResp = [status |-> "pending"]
    /\ lastTotal = NoTotal
    /\ ev = [kind |-> "mount"]
    /\ budget = [events |-> 0, pages |-> 0, toggles |-> 0, inputs |-> 0,
                 selects |-> 0, src |-> 0, fails |-> 0]


\* --------------------------------------------------------------- fetchData
\* The request fetchData(page, pageSize) puts in flight.  `offset` is history:
\* the offset the load is for.
fetchData(page, pageSize, offset) ==
    [page |-> page, pageSize |-> pageSize, offset |-> offset]

\* The effect with dependencies [first, rows]: it runs after a render in which
\* first or rows changed, and calls fetchData(first / rows + 1, rows).
useEffect(oldFirst, oldRows, newFirst, newRows) ==
    IF newFirst # oldFirst \/ newRows # oldRows
    THEN <<fetchData(EffectPage(newFirst, newRows), newRows, newFirst)>>
    ELSE <<>>

\* The page-change event of the paginator: e.page is the zero-based page of
\* e.first.
PageEvents ==
    {[first |-> f, rows |-> r, page |-> f \div r] :
        f \in 0..MaxFirst, r \in PageSizes}

\* onPageChange with a reset of the selection on every page change.
onPageChangeResetting(e) ==
    /\ Allowed("pages", MaxPageEvents)
    /\ Len(loads) + 1 + Len(useEffect(first, rows, e.first, e.rows)) <= MaxInFlight
    /\ first' = e.first
    /\ rows' = e.rows
    /\ loading' = TRUE
    /\ loads' = loads \o <<fetchData(IntPage(e.page + 1), e.rows, e.first)>>
                      \o useEffect(first, rows, e.first, e.rows)
    /\ latestResp' = [status |-> "pending"]
    /\ selectedArtworks' = <<>>
    /\ ev' = [kind |-> "pageChange", prev |-> selectedArtworks,
              issued |-> SubSeq(loads', Len(loads) + 1, Len(loads'))]
    /\ budget' = Spend("pages")
    /\ UNCHANGED <<artworks, totalRecords, rowCount, sels, srcTotal, lastTotal>>

\* onPageChange(e): setFirst, setRows, fetchData(e.page + 1, e.rows); the
\* render that follows runs the effect when first or rows changed.
onPageChange(e) ==
    /\ Allowed("pages", MaxPageEvents)
    /\ Len(loads) + 1 + Len(useEffect(first, rows, e.first, e.rows)) <= MaxInFlight
    /\ first' = e.first
    /\ rows' = e.rows
    /\ loading' = TRUE
    /\ loads' = loads \o <<fetchData(IntPage(e.page + 1), e.rows, e.first)>>
                      \o useEffect(first, rows, e.first, e.rows)
    /\ latestResp' = [status |-> "pending"]
    /\ ev' = [kind |-> "pageChange", prev |-> selectedArtworks,
              issued |-> SubSeq(loads', Len(loads) + 1, Len(loads'))]
    /\ budget' = Spend("pages")
    /\ UNCHANGED <<artworks, totalRecords, selectedArtworks, rowCount, sels,
                   srcTotal, lastTotal>>

\* The sequence s without its i-th element.
Remove(s, i) == SubSeq(s, 1, i - 1) \o SubSeq(s, i + 1, Len(s))

\* The rest of fetchData after its awaits, for the i-th pending call.
\*   ok:      setArtworks(data.data); setTotalRecords(data.pagination.total);
\*            setLoading(false)
\*   reject:  fetch() or json() rejected: the call ends there
\*   errbody: data.data is undefined: setArtworks(undefined), then
\*            data.pagination.total throws
\* A page number that is no integer is answered as the source pleases; its
\* "ok" answer is modelled as the page of its integer part.
fetchDataResume(i, outcome) ==
    LET req == loads[i]
        data == PageData(req.page.q, req.pageSize, srcTotal)
        isLatest == i = Len(loads) /\ latestResp.status = "pending"
    IN  /\ MayEnd(outcome)
        /\ budget' = SpendOutcome(outcome)
        /\ loads' = Remove(loads, i)
        /\ artworks' = CASE outcome = "ok" -> data
                         [] outcome = "errbody" -> Undefined
                         [] OTHER -> artworks
        /\ totalRecords' = IF outcome = "ok" THEN srcTotal ELSE totalRecords
        /\ loading' = IF outcome = "ok" THEN FALSE ELSE loading
        /\ latestResp' =
              IF ~isLatest THEN latestResp
              ELSE IF outcome = "ok"
                   THEN [status |-> "ok", data |-> data, total |-> srcTotal]
                   ELSE [status |-> "failed"]
        /\ lastTotal' = IF outcome = "ok" THEN Total(srcTotal) ELSE lastTotal
        /\ ev' = [kind |-> IF outcome = "ok" THEN "loadOk" ELSE "loadFail",
                  shown |-> artworks, prev |-> selectedArtworks]
        /\ UNCHANGED <<first, rows, selectedArtworks, rowCount, sels, srcTotal>>

\* ------------------------------------------------------------- onRowSelect
\* A click that always adds the row.
ToggleAddOnly(sel, id) == Append(sel, id)

\* The value of the table's selection-change event for a click on the row
\* `id`: the selection without it if it is selected (dataKey="id"), else the
\* selection with it appended.
Toggle(sel, id) ==
    IF id \in Elems(sel)
    THEN LET keep == {i \in 1..Len(sel) : sel[i] # id}
             F[k \in 0..Len(sel)] ==
                 IF k = 0 THEN <<>>
                 ELSE IF k \in keep THEN Append(F[k - 1], sel[k]) ELSE F[k - 1]
         IN  F[Len(sel)]
    ELSE Append(sel, id)

\* The history of a toggle: the row, the selection before it, whether the step
\* before was a toggle of the same row (and then the selection before that
\* one), and the pagination state, displayed page and pending fetches before.
ToggleEvent(id) ==
    LET twice == ev.kind = "toggle" /\ ev.id = id
    IN  [kind |-> "toggle", id |-> id, prev |-> selectedArtworks,
         twice |-> twice, orig |-> IF twice THEN ev.prev ELSE selectedArtworks,
         frame |-> <<first, rows, artworks, totalRecords, loading, loads, sels>>]

\* onRowSelect that also goes back to the first page.
onRowSelectJumping(id) ==
    /\ Allowed("toggles", MaxToggles)
    /\ artworks # Undefined
    /\ id \in Elems(artworks)
    /\ selectedArtworks' = Toggle(selectedArtworks, id)
    /\ first' = 0
    /\ ev' = ToggleEvent(id)
    /\ budget' = Spend("toggles")
    /\ UNCHANGED <<artworks, totalRecords, loading, rows, rowCount,
                   loads, sels, srcTotal, latestResp, lastTotal>>

\* onRowSelect(e): setSelectedArtworks(e.value), for a click on a displayed row.
onRowSelect(id) ==
    /\ Allowed("toggles", MaxToggles)
    /\ artworks # Undefined
    /\ id \in Elems(artworks)
    /\ selectedArtworks' = Toggle(selectedArtworks, id)
    /\ ev' = ToggleEvent(id)
    /\ budget' = Spend("toggles")
    /\ UNCHANGED <<artworks, totalRecords, loading, first, rows, rowCount,
                   loads, sels, srcTotal, latestResp, lastTotal>>

\* ------------------------------------------------------- handleInputChange
\* inputValue.replace(/^0+/, ''): the digits without their leading zeros.
RECURSIVE StripLeadingZeros(_)
StripLeadingZeros(digits) ==
    IF digits # <<>> /\ Head(digits) = 0
    THEN StripLeadingZeros(Tail(digits))
    ELSE digits

\* Number(cleanedValue) of a string of decimal digits.
RECURSIVE Number(_)
Number(digits) ==
    IF digits = <<>> THEN 0
    ELSE 10 * Number(SubSeq(digits, 1, Len(digits) - 1)) + digits[Len(digits)]

\* The strings of at most two digits the input may hold.
InputValues ==
    {s \in {<<>>} \cup {<<a>> : a \in 0..9} \cup {<<a, b>> : a \in 0..1, b \in 0..9} :
        Number(s) <= MaxN}

\* handleInputChange(e): setRowCount(cleanedValue === '' ? 0 : Number(...)).
handleInputChange(inputValue) ==
    LET cleanedValue == StripLeadingZeros(inputValue)
    IN  /\ Allowed("inputs", MaxInputs)
        /\ rowCount' = IF cleanedValue = <<>> THEN 0 ELSE Number(cleanedValue)
        /\ ev' = [kind |-> "input"]
        /\ budget' = Spend("inputs")
        /\ UNCHANGED <<artworks, totalRecords, loading, first, rows,
                       selectedArtworks, loads, sels, srcTotal, latestResp,
                       lastTotal>>

\* ------------------------------------------------------ handleRowSelection
\* The loop starting at the displayed page.
FirstSelectPageAtOffset == first \div rows + 1

\* `let page = 1` of the loop: the first page an invocation fetches.
FirstSelectPage == 1

\* The accumulated records added to the selection.
SelectionMerged(sel, newSelection) == sel \o newSelection

\* What the invocation leaves in selectedArtworks when its loop has ended:
\* setSelectedArtworks(newSelection).
SelectionAfter(sel, newSelection) == newSelection

\* The records accumulated so far written on the way out.
SelectionAfterThrowPartial(sel, newSelection) == newSelection

\* What a failed invocation leaves in selectedArtworks: the rejection leaves
\* the function before setSelectedArtworks.
SelectionAfterThrow(sel, newSelection) == sel

\* An invocation that starts from what a pending one has accumulated.
SelectionStartShared ==
    [pages |-> Ceil(rowCount, rows), rows |-> rows, page |-> FirstSelectPage,
     newSelection |-> IF sels # <<>> THEN sels[1].newSelection ELSE <<>>,
     rowsToFetch |-> rowCount,
     n |-> rowCount, fetches |-> 0, short |-> FALSE, enough |-> TRUE,
     before |-> selectedArtworks,
     requested |-> <<>>, limits |-> {}, returned |-> 0, overlap |-> sels # <<>>]

\* The invocation up to its first await: pages, newSelection and rowsToFetch
\* are set from the rowCount and rows of the render the handler belongs to, and
\* the fetch of the first page is put in flight.  n, fetches, short, enough and
\* before are history: the rowCount used, the responses received, whether a
\* page shorter than rows was received, whether the source held n records at
\* every response, and selectedArtworks at the call; requested, limits and
\* returned: the pages requested so far, the page sizes of the answered
\* requests and the length of the last page received; overlap: whether another
\* invocation was pending at any time of this one.
SelectionStart ==
    [pages |-> Ceil(rowCount, rows), rows |-> rows, page |-> FirstSelectPage,
     newSelection |-> <<>>, rowsToFetch |-> rowCount,
     n |-> rowCount, fetches |-> 0, short |-> FALSE, enough |-> TRUE,
     before |-> selectedArtworks,
     requested |-> <<>>, limits |-> {}, returned |-> 0, overlap |-> sels # <<>>]

\* The history of a finished invocation, kept in ev; prev and frame are
\* selectedArtworks and first, rows, artworks in the state the step started
\* from.
Finished(kind, t) ==
    [kind |-> kind, n |-> t.n, rows |-> t.rows, pages |-> t.pages,
     fetches |-> t.fetches, enough |-> t.enough, result |-> t.newSelection,
     before |-> t.before, prev |-> selectedArtworks,
     requested |-> t.requested, limits |-> t.limits, returned |-> t.returned,
     overlap |-> t.overlap, frame |-> <<first, rows, artworks>>]

\* handleRowSelection(), from the Submit button or the Enter key.  With
\* pages < 1 the loop body never runs and the function ends without an await.
handleRowSelection ==
    LET t == SelectionStart
    IN  /\ Allowed("selects", MaxSelects)
        /\ budget' = Spend("selects")
        /\ IF t.page <= t.pages
           THEN /\ sels' = Append([i \in 1..Len(sels) |->
                                      [sels[i] EXCEPT !.overlap = TRUE]],
                                  [t EXCEPT !.requested = <<t.page>>])
                /\ ev' = [kind |-> "selectStart", prev |-> selectedArtworks]
                /\ UNCHANGED <<selectedArtworks, rowCount>>
           ELSE /\ selectedArtworks' = SelectionAfter(selectedArtworks, t.newSelection)
                /\ rowCount' = 0
                /\ ev' = Finished("selectDone", t)
                /\ UNCHANGED sels
        /\ UNCHANGED <<artworks, totalRecords, loading, first, rows, loads,
                       srcTotal, latestResp, lastTotal>>

\* The loop body with a loop increment of two.
LoopBodySkipping(t, fetchedData) ==
    LET last == t.page = t.pages
        newSelection == IF last
                        THEN t.newSelection \o Slice(fetchedData, t.rowsToFetch)
                        ELSE t.newSelection \o fetchedData
        rowsToFetch == IF last THEN t.rowsToFetch ELSE t.rowsToFetch - t.rows
    IN  [t EXCEPT !.newSelection = newSelection,
                  !.rowsToFetch = rowsToFetch,
                  !.page = t.page + 2,
                  !.fetches = t.fetches + 1,
                  !.short = Len(fetchedData) < t.rows,
                  !.returned = Len(fetchedData),
                  !.enough = t.enough /\ srcTotal >= t.n]

\* One pass of the loop body for the fetched page, up to the loop's exit test:
\* the invocation's variables after it, and whether the loop has ended.
LoopBody(t, fetchedData) ==
    LET last == t.page = t.pages
        newSelection == IF last
                        THEN t.newSelection \o Slice(fetchedData, t.rowsToFetch)
                        ELSE t.newSelection \o fetchedData
        rowsToFetch == IF last THEN t.rowsToFetch ELSE t.rowsToFetch - t.rows
    IN  [t EXCEPT !.newSelection = newSelection,
                  !.rowsToFetch = rowsToFetch,
                  !.page = t.page + 1,
                  !.fetches = t.fetches + 1,
                  !.short = Len(fetchedData) < t.rows,
                  !.returned = Len(fetchedData),
                  !.enough = t.enough /\ srcTotal >= t.n]

LoopEnded(t) == t.rowsToFetch <= 0 \/ t.page > t.pages

\* The page size read when the request is made, not when the handler started.
SelectLimitCurrent(t) == rows

\* `limit=${rows}` of the request: rows is the constant of the render the
\* handler belongs to.
SelectLimit(t) == t.rows

\* The i-th invocation resumes with the answer to its pending fetch.
\*   ok:      the loop body runs; then either the next page is fetched or
\*            setSelectedArtworks(newSelection); setRowCount(0)
\*   reject:  fetch() or json() rejected
\*   errbody: data.data is undefined: spreading it, or calling slice on it,
\*            throws
handleRowSelectionResume(i, outcome) ==
    LET t == sels[i]
        limit == SelectLimit(t)
        u == [LoopBody(t, PageData(t.page, limit, srcTotal))
                  EXCEPT !.limits = @ \cup {limit}]
    IN  /\ MayEnd(outcome)
        /\ budget' = SpendOutcome(outcome)
        /\ IF outcome = "ok"
           THEN IF LoopEnded(u)
                THEN /\ sels' = Remove(sels, i)
                     /\ selectedArtworks' = SelectionAfter(selectedArtworks, u.newSelection)
                     /\ rowCount' = 0
                     /\ ev' = Finished("selectDone", u)
                ELSE /\ sels' = [sels EXCEPT ![i] =
                                      [u EXCEPT !.requested = Append(@, u.page)]]
                     /\ ev' = [kind |-> "selectPage", prev |-> selectedArtworks]
                     /\ UNCHANGED <<selectedArtworks, rowCount>>
           ELSE /\ sels' = Remove(sels, i)
                /\ selectedArtworks' = SelectionAfterThrow(selectedArtworks, t.newSelection)
                /\ ev' = Finished("selectFail", t)
                /\ UNCHANGED rowCount
        /\ lastTotal' = IF outcome = "ok" THEN Total(srcTotal) ELSE lastTotal
        /\ UNCHANGED <<artworks, totalRecords, loading, first, rows, loads,
                       srcTotal, latestResp>>

\* ------------------------------------------------------------- data source
\* The data source gains or loses records at its end.
SourceChange(total) ==
    /\ Allowed("src", MaxSrcChanges)
    /\ total # srcTotal
    /\ srcTotal' = total
    /\ ev' = [kind |-> "source"]
    /\ budget' = Spend("src")
    /\ UNCHANGED <<artworks, totalRecords, loading, first, rows,
                   selectedArtworks, rowCount, loads, sels, latestResp,
                   lastTotal>>

\* -------------------------------------------------------------------- Next
Next ==
    \/ \E e \in PageEvents : onPageChange(e)
    \/ \E i \in 1..Len(loads), outcome \in Outcomes : fetchDataResume(i, outcome)
    \/ \E id \in 1..MaxTotal : onRowSelect(id)
    \/ \E inputValue \in InputValues : handleInputChange(inputValue)
    \/ handleRowSelection
    \/ \E i \in 1..Len(sels), outcome \in Outcomes : handleRowSelectionResume(i, outcome)
    \/ \E total \in SourceSizes : SourceChange(total)

Spec == Init /\ [][Next]_vars

\* ================================================================== claims
\* Every fetchData call has been answered.
NoLoadPending == loads = <<>>

\* C1: once every load has been answered (here: none of them failed), the
\* displayed records and totalRecords are those returned for the most recently
\* issued load, in whatever order the answers arrived.
C1_LatestLoadWins ==
    (NoLoadPending /\ budget.fails = 0)
        => (artworks = latestResp.data /\ totalRecords = latestResp.total)

\* C2: a handleRowSelection invocation that has not ended its loop never
\* writes selectedArtworks: neither its start, nor a fetched page, nor a failed
\* fetch changes the selection.
C2_FailedSelectLeavesSelection ==
    ev.kind \in {"selectStart", "selectPage", "selectFail"}
        => selectedArtworks = ev.prev

\* C2 witness: the fetch after at least one fetched page failed, with records
\* already accumulated.
C2_Witness ==
    /\ ev.kind = "selectFail"
    /\ ev.fetches >= 1
    /\ ev.result # <<>>
    /\ ev.pages = ev.fetches + 1

\* C3: with n = k*rows + r (0 <= r < rows) and a source of at least n records,
\* a finished invocation made k + (r > 0 ? 1 : 0) fetches and selected exactly
\* n distinct records.
C3_FetchCountAndSize ==
    (ev.kind = "selectDone" /\ ev.enough)
        => /\ ev.fetches = ev.n \div ev.rows + (IF ev.n % ev.rows > 0 THEN 1 ELSE 0)
           /\ Len(selectedArtworks) = ev.n
           /\ Cardinality(Elems(selectedArtworks)) = ev.n

\* C3 witness: two full pages and a remainder of one (the scenario of 25
\* records in pages of 12), from a source of at least n records.
C3_Witness ==
    /\ ev.kind = "selectDone"
    /\ ev.enough
    /\ ev.n = 2 * ev.rows + 1
    /\ ev.fetches = 3

\* C4: from a source of at least n records, a finished invocation selects the
\* records 1..n in the order of the source, whatever offset is displayed.
C4_SelectsFirstN ==
    (ev.kind = "selectDone" /\ ev.enough) => selectedArtworks = Range(1, ev.n)

\* C4 witness: an invocation over several pages with a partial last page ended
\* while a page other than the first was displayed.
C4_Witness ==
    /\ ev.kind = "selectDone"
    /\ ev.enough
    /\ first > 0
    /\ ev.pages >= 2
    /\ ev.n % ev.rows # 0
    /\ selectedArtworks = Range(1, ev.n)

\* C5: a failed load leaves the displayed records as they were and clears
\* loading.
C5_FailedLoadKeepsPageClearsLoading ==
    (ev.kind = "loadFail" /\ NoLoadPending)
        => (artworks = ev.shown /\ loading = FALSE)

\* C6: an invocation requests no page after a page that came back with fewer
\* than rows records.
C6_StopsAfterShortPage ==
    \A i \in 1..Len(sels) : ~sels[i].short

\* C7: when an invocation ends its loop, selectedArtworks is exactly what it
\* accumulated, all of it among the first n records: nothing selected before
\* or toggled meanwhile survives unless it is among them.
C7_SelectReplacesSelection ==
    ev.kind = "selectDone"
        => /\ selectedArtworks = ev.result
           /\ Elems(selectedArtworks) \subseteq 1..ev.n

\* C7 witness: an invocation that fetched and selected records ended, and a
\* record selected until then is no longer selected.
C7_Witness ==
    /\ ev.kind = "selectDone"
    /\ ev.fetches >= 1
    /\ selectedArtworks # <<>>
    /\ \E id \in Elems(ev.prev) : id \notin Elems(selectedArtworks)

\* C8: a page change and the answer to a load leave selectedArtworks as it
\* was.
C8_NavigationKeepsSelection ==
    ev.kind \in {"pageChange", "loadOk", "loadFail"}
        => selectedArtworks = ev.prev

\* C8 witness: after two page changes the first page is displayed again, every
\* load is answered, and a record of it is still selected.
C8_Witness ==
    /\ budget.pages = 2
    /\ ev.kind = "loadOk"
    /\ NoLoadPending
    /\ first = 0
    /\ artworks = PageData(1, rows, srcTotal)
    /\ selectedArtworks # <<>>
    /\ Elems(selectedArtworks) \subseteq Elems(artworks)

\* C9: every load request carries the integer page number
\* floor(offset / pageSize) + 1 of the offset it is for.
C9_LoadCarriesFloorPage ==
    \A i \in 1..Len(loads) :
        loads[i].page = IntPage(loads[i].offset \div loads[i].pageSize + 1)

\* C10: at most one load request is pending.
C10_OneLoadPending == Len(loads) <= 1

\* C11: while a load request is pending, loading is true.
C11_LoadingWhilePending == ~NoLoadPending => loading = TRUE

\* C12: totalRecords is the total of the most recently received successful
\* response, of a load or of a page fetch of handleRowSelection.
C12_TotalFromLatestResponse ==
    lastTotal.seen => totalRecords = lastTotal.total

\* C13: a page or page-size change while an invocation is pending does not
\* disturb it: all its requests carry the page size of its start, its end
\* leaves first, rows and the displayed page as they were, and from a source
\* of at least n records it selects the records 1..n.
C13_PageChangeDuringSelect ==
    ev.kind = "selectDone"
        => /\ ev.limits \subseteq {ev.rows}
           /\ <<first, rows, artworks>> = ev.frame
           /\ ev.enough => selectedArtworks = Range(1, ev.n)

\* C13 witness: an invocation over several pages ended after the page size
\* had changed under it, with the first n records selected.
C13_Witness ==
    /\ ev.kind = "selectDone"
    /\ ev.rows # rows
    /\ ev.fetches >= 2
    /\ ev.enough
    /\ selectedArtworks = Range(1, ev.n)

\* C14 as stated: an invocation with n <= rows makes exactly one fetch, of
\* page 1, and selects min(n, records on that page) records.
C14_OnePageOriginal ==
    (ev.kind = "selectDone" /\ ev.n <= ev.rows)
        => /\ ev.fetches = 1
           /\ ev.requested = <<1>>
           /\ Len(selectedArtworks) = Min(ev.n, ev.returned)

\* C14 amended: an invocation with 1 <= n <= rows makes exactly one fetch, of
\* page 1, and selects min(n, records on that page) records.
C14_OnePage ==
    (ev.kind = "selectDone" /\ 1 <= ev.n /\ ev.n <= ev.rows)
        => /\ ev.fetches = 1
           /\ ev.requested = <<1>>
           /\ Len(selectedArtworks) = Min(ev.n, ev.returned)

\* C14 witness: a one-page invocation whose page held fewer than n records.
C14_Witness ==
    /\ ev.kind = "selectDone"
    /\ 1 <= ev.n
    /\ ev.n <= ev.rows
    /\ ev.returned < ev.n
    /\ Len(selectedArtworks) = ev.returned

\* C15: an invocation with n = 0 makes no fetch and leaves the selection
\* empty, whatever was selected; no pending invocation has n = 0.
C15_ZeroSelectsNothing ==
    /\ (ev.kind = "selectDone" /\ ev.n = 0)
          => (ev.fetches = 0 /\ ev.requested = <<>> /\ selectedArtworks = <<>>)
    /\ \A i \in 1..Len(sels) : sels[i].n >= 1

\* C15 witness: an invocation with n = 0 ended with records selected before.
C15_Witness ==
    /\ ev.kind = "selectDone"
    /\ ev.n = 0
    /\ ev.prev # <<>>

\* C16: a toggle adds the row if it is absent and removes it if present, so
\* two toggles of one row in a row restore the selected set; a toggle issues
\* no fetch and leaves first, rows, the displayed page, totalRecords and
\* loading as they were.
C16_ToggleInvolution ==
    ev.kind = "toggle"
        => /\ ev.frame = <<first, rows, artworks, totalRecords, loading, loads, sels>>
           /\ Elems(selectedArtworks) =
                 IF ev.id \in Elems(ev.prev) THEN Elems(ev.prev) \ {ev.id}
                 ELSE Elems(ev.prev) \cup {ev.id}
           /\ ev.twice => /\ Elems(selectedArtworks) = Elems(ev.orig)
                          /\ Len(selectedArtworks) = Len(ev.orig)

\* C16 witness: a selected row was toggled twice in a row.
C16_Witness ==
    /\ ev.kind = "toggle"
    /\ ev.twice
    /\ ev.id \in Elems(ev.orig)
    /\ Len(ev.orig) >= 2

\* C17: at mount first = 0, rows = 12 and nothing is selected; afterwards
\* only a page-change event changes first or rows.
C17_OnlyPageChangeMovesPage ==
    /\ [](ev.kind = "mount"
            => (first = 0 /\ rows = 12 /\ selectedArtworks = <<>>))
    /\ [][(first' # first \/ rows' # rows) => ev'.kind = "pageChange"]_vars

\* C17 witness: an invocation that fetched pages ended while a page other
\* than the first and a page size other than the initial one were displayed.
C17_Witness ==
    /\ ev.kind = "selectDone"
    /\ ev.fetches >= 1
    /\ first # 0
    /\ rows # DefaultRows
    /\ <<first, rows>> = <<ev.frame[1], ev.frame[2]>>

\* The pages an invocation has requested are 1, 2, ... in this order.
InOrder(requested) == requested = Range(1, Len(requested))

\* C18: an invocation requests the pages 1, 2, ..., pages in this order, and
\* each request but the first only after the answer to the one before: a
\* pending invocation has made exactly one request more than it has answers.
C18_SequentialPages ==
    /\ \A i \in 1..Len(sels) :
          /\ InOrder(sels[i].requested)
          /\ Len(sels[i].requested) = sels[i].fetches + 1
          /\ Len(sels[i].requested) <= sels[i].pages
    /\ ev.kind = "selectDone"
          => (InOrder(ev.requested) /\ Len(ev.requested) = ev.fetches)
    /\ ev.kind = "selectFail"
          => (InOrder(ev.requested) /\ Len(ev.requested) = ev.fetches + 1)

\* C18 witness: an invocation ended after requesting the pages 1, 2, 3.
C18_Witness ==
    /\ ev.kind = "selectDone"
    /\ ev.requested = <<1, 2, 3>>

\* C19: a page-change event issues exactly one request, for the page
\* floor(first / rows) + 1 of the new offset with the new page size.
C19_OneRequestPerPageChange ==
    ev.kind = "pageChange"
        => /\ Len(ev.issued) = 1
           /\ ev.issued[1].page = IntPage(first \div rows + 1)
           /\ ev.issued[1].pageSize = rows

\* C20: an invocation that overlapped another ends with exactly its own
\* accumulation selected: no record twice, at most n records, and the records
\* 1..n from a source of at least n records.
C20_OverlappingSelectsDoNotMix ==
    (ev.kind = "selectDone" /\ ev.overlap)
        => /\ selectedArtworks = ev.result
           /\ Cardinality(Elems(ev.result)) = Len(ev.result)
           /\ Len(ev.result) <= ev.n
           /\ ev.enough => ev.result = Range(1, ev.n)

\* C20 witness: the second of two overlapping invocations over several pages
\* ended, both without a failure.
C20_Witness ==
    /\ ev.kind = "selectDone"
    /\ ev.overlap
    /\ sels = <<>>
    /\ budget.selects = 2
    /\ budget.fails = 0
    /\ ev.fetches >= 2
    /\ selectedArtworks # <<>>

====
